---------------------------- MODULE Spec2Model ----------------------------
(***************************************************************************)
(* State-machine model of the Carousel component                           *)
(* (src/src/components/Carousel/Carousel.tsx).                             *)
(*                                                                         *)
(* The component's React state (useState) and refs (useRef) are the        *)
(* variables.  Every handler is one action.  A handler that changes React  *)
(* state is followed, inside the same action, by the re-render and the     *)
(* effects that React commits before the next event is handled (Render).   *)
(* Functions that are memoised with useCallback read the state of the      *)
(* render that created them; the value they captured is passed to the      *)
(* operators below as the parameter "closureTransitioning".                *)
(*                                                                         *)
(* The environment is one pointer at a time (a mouse button or a finger),  *)
(* a hover flag, the clock of the interval timers and the CSS transition   *)
(* of the track element.                                                   *)
(***************************************************************************)
EXTENDS Integers, Sequences, FiniteSets, TLC

\* ----------------------------------------------------------------------
\* Program constants
\* ----------------------------------------------------------------------

\* config/carousel.constants.ts (imported at Carousel.tsx:5)
CLONE_COUNT == 3
SLIDE_WIDTH == 300
AUTO_SLIDE_INTERVAL == 3500

\* Carousel.tsx:156  Math.abs(deltaX) >= 40
CommitThreshold == 40
\* Carousel.tsx:139 and :200  Math.abs(deltaX) > 5
ClickThreshold == 5

\* ----------------------------------------------------------------------
\* Bounds of the model
\* ----------------------------------------------------------------------

\* the source list has CLONE_COUNT .. CLONE_COUNT + ExtraItems items
ExtraItems == 1
\* interval timers that can run at once before setInterval is refused
MaxIntervals == 2
\* selectstart listeners counted as left on the document (saturating)
MaxLeaked == 1
\* the clock advances by at most this many milliseconds in one step
TimeStep == 1750

\* pointer coordinates: the coordinate of a pointer-down, and the
\* displacements a later move can have from it
StartXs == {100}
Deltas == {-40, -39, -6, 5, 6, 39, 40, 45}
\* widths the browser can report for a rendered slide
MeasuredWidths == {300}
\* coordinates a pointer can move to
MoveXs == {x + d : x \in StartXs, d \in Deltas}

\* the auto-play specification: up to CLONE_COUNT + AutoExtraItems items,
\* uninterrupted ticks counted up to MaxAutoTicks, and the widths a
\* rendered slide can have there (0 for a slide that is not laid out)
AutoExtraItems == 3
MaxAutoTicks == 13
AutoWidths == {0, 250, 300}

VARIABLES
    items,              \* props.items
    currentIndex,       \* useState  (Carousel.tsx:21)
    isDragging,         \* useState  (Carousel.tsx:22)
    hasMoved,           \* useState  (Carousel.tsx:23)
    isTransitioning,    \* useState  (Carousel.tsx:24)
    startX,             \* useRef    (Carousel.tsx:27)
    currentTranslate,   \* useRef    (Carousel.tsx:28)
    prevTranslate,      \* useRef    (Carousel.tsx:29)
    autoSlideTimer,     \* useRef    (Carousel.tsx:30); 0 is null
    isDraggingRef,      \* useRef    (Carousel.tsx:32)
    currentIndexRef,    \* useRef    (Carousel.tsx:33)
    intervals,          \* the running setInterval timers
    trackClass,         \* the track element's classList has 'transitioning'
    styleTransform,     \* the track element's style.transform, in px
    transitionRunning,  \* a CSS transition of the track is in flight
    docListeners,       \* listeners the component has on document
    preventDefaultCurrent, \* this render's preventDefault is the one the
                        \* memoised handleMouseUp closes over
    offsetWidth,        \* rendered width of the first slide
    hovering,           \* the mouse pointer is over the carousel
    pointer,            \* "none", "mouse" or "touch": the pointer held down
    downX,              \* coordinate of the last pointer-down
    pointerX,           \* last coordinate of that pointer
    clickPending,       \* the browser will dispatch click for the release
    mounted,            \* the component is mounted (trackRef.current set)
    resizeListener,     \* updatePosition is a resize listener of window
    autoRun,            \* history: ticks and corrections since mount while
                        \* nothing but the timer has driven the carousel
    movedPast5,         \* history: a move of this session exceeded 5px
    lastEvent           \* history: last handler run and the branch it took

progVars == <<currentIndex, isDragging, hasMoved, isTransitioning, startX,
              currentTranslate, prevTranslate, autoSlideTimer, isDraggingRef,
              currentIndexRef, intervals, trackClass, styleTransform,
              transitionRunning, docListeners, preventDefaultCurrent>>

vars == <<items, currentIndex, isDragging, hasMoved, isTransitioning, startX,
          currentTranslate, prevTranslate, autoSlideTimer, isDraggingRef,
          currentIndexRef, intervals, trackClass, styleTransform,
          transitionRunning, docListeners, preventDefaultCurrent,
          offsetWidth, hovering, pointer, downX, pointerX, clickPending,
          mounted, resizeListener, autoRun, movedPast5, lastEvent>>

Abs(n) == IF n < 0 THEN -n ELSE n

\* ----------------------------------------------------------------------
\* Inputs
\* ----------------------------------------------------------------------

\* a source list of n items; the items whose id is in noLink have no
\* landing_page (landing_page is optional, carousel.types.ts:5)
MakeItems(n, noLink) ==
    [i \in 1..n |-> [id |-> i,
                     landing_page |-> IF i \in noLink THEN "" ELSE "url"]]

ItemLists ==
    { MakeItems(n, noLink) :
        n \in CLONE_COUNT..(CLONE_COUNT + ExtraItems),
        noLink \in {{1}} }

\* items.slice(-k)
SliceLast(s, k) ==
    IF k >= Len(s) THEN s ELSE SubSeq(s, Len(s) - k + 1, Len(s))

\* items.slice(0, k)
SliceFirst(s, k) ==
    IF k >= Len(s) THEN s ELSE SubSeq(s, 1, k)

\* variant: the first items are prepended and the last appended
clonedItems_Swapped(its) ==
    SliceFirst(its, CLONE_COUNT) \o its \o SliceLast(its, CLONE_COUNT)

\* Carousel.tsx:14-18; padded index i is clonedItems(its)[i + 1]
clonedItems(its) ==
    SliceLast(its, CLONE_COUNT) \o its \o SliceFirst(its, CLONE_COUNT)

\* ----------------------------------------------------------------------
\* The component as a record, so that handlers compose
\* ----------------------------------------------------------------------

State ==
    [ currentIndex |-> currentIndex, isDragging |-> isDragging,
      hasMoved |-> hasMoved, isTransitioning |-> isTransitioning,
      startX |-> startX, currentTranslate |-> currentTranslate,
      prevTranslate |-> prevTranslate, autoSlideTimer |-> autoSlideTimer,
      isDraggingRef |-> isDraggingRef, currentIndexRef |-> currentIndexRef,
      intervals |-> intervals, trackClass |-> trackClass,
      styleTransform |-> styleTransform,
      transitionRunning |-> transitionRunning,
      docListeners |-> docListeners,
      preventDefaultCurrent |-> preventDefaultCurrent,
      n |-> Len(items), offsetWidth |-> offsetWidth,
      trackMounted |-> mounted ]

\* the values a handler leaves, each computed once
CommitRefsAndState(result) ==
    \E r \in {result} :
        /\ currentIndex' = r.currentIndex
        /\ isDragging' = r.isDragging
        /\ hasMoved' = r.hasMoved
        /\ isTransitioning' = r.isTransitioning
        /\ startX' = r.startX
        /\ currentTranslate' = r.currentTranslate
        /\ prevTranslate' = r.prevTranslate
        /\ autoSlideTimer' = r.autoSlideTimer
        /\ isDraggingRef' = r.isDraggingRef
        /\ currentIndexRef' = r.currentIndexRef
        /\ intervals' = r.intervals
        /\ trackClass' = r.trackClass
        /\ styleTransform' = r.styleTransform
        /\ transitionRunning' = r.transitionRunning
        /\ docListeners' = r.docListeners
        /\ preventDefaultCurrent' = r.preventDefaultCurrent
        /\ Cardinality(r.intervals) <= MaxIntervals

\* what a handler of the mounted component leaves
Commit(r) ==
    /\ mounted
    /\ CommitRefsAndState(r)
    /\ UNCHANGED <<items, offsetWidth, mounted, resizeListener>>

\* the history of an uninterrupted auto-play run, and its end
NoRun == [ticks |-> -1, corrections |-> -1]

CountTick(run, advanced) ==
    IF run.ticks < 0 \/ ~advanced THEN run
    ELSE IF run.ticks >= MaxAutoTicks THEN NoRun
    ELSE [run EXCEPT !.ticks = run.ticks + 1]

CountCorrection(run, corrected) ==
    IF run.ticks < 0 \/ ~corrected THEN run
    ELSE [run EXCEPT !.corrections = run.corrections + 1]

\* ----------------------------------------------------------------------
\* Browser primitives
\* ----------------------------------------------------------------------

\* window.setInterval: returns a positive id that no running timer has
NewIntervalId(running) ==
    CHOOSE i \in 1..(MaxIntervals + 1) :
        /\ \A t \in running : t.id # i
        /\ \A j \in 1..(i - 1) : \E t \in running : t.id = j

\* the timer calls the nextSlide it was given, which closed over
\* isTransitioning
setInterval(running, closureTransitioning) ==
    running \cup {[id |-> NewIntervalId(running),
                   remaining |-> AUTO_SLIDE_INTERVAL,
                   isTransitioning |-> closureTransitioning]}

clearInterval(running, id) == {t \in running : t.id # id}

\* trackRef.current.style.transform = `translateX(${v}px)` ; with the
\* 'transitioning' class (transition: transform 0.3s) a changed value
\* starts a CSS transition
SetTransform(s, v) ==
    [s EXCEPT !.styleTransform = v,
              !.transitionRunning =
                  IF s.trackClass /\ v # s.styleTransform
                  THEN TRUE ELSE s.transitionRunning]

\* ----------------------------------------------------------------------
\* Carousel.tsx, in source order
\* ----------------------------------------------------------------------

\* Carousel.tsx:37-45; the track has a first slide when there are items
getSlideWidth(s) ==
    IF s.trackMounted /\ s.n > 0
    THEN s.offsetWidth
    ELSE SLIDE_WIDTH

\* variant: the guard tests the drag only
nextSlide_DragGuardOnly(s, closureTransitioning) ==
    IF s.isDraggingRef
    THEN s
    ELSE LET next == s.currentIndexRef + 1
             slideWidth == getSlideWidth(s)
         IN [s EXCEPT !.isTransitioning = TRUE,
                      !.currentIndexRef = next,
                      !.currentIndex = next,
                      !.currentTranslate = -next * slideWidth,
                      !.prevTranslate = -next * slideWidth]

\* Carousel.tsx:51-61
nextSlide(s, closureTransitioning) ==
    IF s.isDraggingRef \/ closureTransitioning
    THEN s
    ELSE LET next == s.currentIndexRef + 1
             slideWidth == getSlideWidth(s)
         IN [s EXCEPT !.isTransitioning = TRUE,
                      !.currentIndexRef = next,
                      !.currentIndex = next,
                      !.currentTranslate = -next * slideWidth,
                      !.prevTranslate = -next * slideWidth]

\* variant: the stored timer is not cleared before a new one is created
startAutoSlide_NoClear(s, closureTransitioning) ==
    [s EXCEPT !.intervals = setInterval(s.intervals, closureTransitioning),
              !.autoSlideTimer = NewIntervalId(s.intervals)]

\* Carousel.tsx:63-66
startAutoSlide(s, closureTransitioning) ==
    LET cleared == IF s.autoSlideTimer # 0
                   THEN clearInterval(s.intervals, s.autoSlideTimer)
                   ELSE s.intervals
    IN [s EXCEPT !.intervals = setInterval(cleared, closureTransitioning),
                 !.autoSlideTimer = NewIntervalId(cleared)]

\* variant: the handle is dropped without clearInterval
stopAutoSlide_NoClear(s) ==
    IF s.autoSlideTimer # 0
    THEN [s EXCEPT !.autoSlideTimer = 0]
    ELSE s

\* Carousel.tsx:68-73
stopAutoSlide(s) ==
    IF s.autoSlideTimer # 0
    THEN [s EXCEPT !.intervals = clearInterval(s.intervals, s.autoSlideTimer),
                   !.autoSlideTimer = 0]
    ELSE s

\* variant: the comparison is > instead of >=
CorrectHigh_Strict(s) ==
    IF s.currentIndexRef > s.n + CLONE_COUNT
    THEN LET realIndex == CLONE_COUNT + (s.currentIndexRef - s.n - CLONE_COUNT)
         IN [s EXCEPT !.currentIndexRef = realIndex,
                      !.currentIndex = realIndex,
                      !.currentTranslate = -realIndex * getSlideWidth(s)]
    ELSE s

\* Carousel.tsx:85-90
CorrectHigh(s) ==
    IF s.currentIndexRef >= s.n + CLONE_COUNT
    THEN LET realIndex == CLONE_COUNT + (s.currentIndexRef - s.n - CLONE_COUNT)
         IN [s EXCEPT !.currentIndexRef = realIndex,
                      !.currentIndex = realIndex,
                      !.currentTranslate = -realIndex * getSlideWidth(s)]
    ELSE s

\* variant: the real index is taken CLONE_COUNT too low
CorrectLow_Short(s) ==
    IF s.currentIndexRef < CLONE_COUNT
    THEN LET realIndex == s.n + s.currentIndexRef - CLONE_COUNT
         IN [s EXCEPT !.currentIndexRef = realIndex,
                      !.currentIndex = realIndex,
                      !.currentTranslate = -realIndex * getSlideWidth(s)]
    ELSE s

\* variant: the real index is taken one too low
CorrectLow_OffByOne(s) ==
    IF s.currentIndexRef < CLONE_COUNT
    THEN LET realIndex == s.n + s.currentIndexRef - 1
         IN [s EXCEPT !.currentIndexRef = realIndex,
                      !.currentIndex = realIndex,
                      !.currentTranslate = -realIndex * getSlideWidth(s)]
    ELSE s

\* Carousel.tsx:92-97
CorrectLow(s) ==
    IF s.currentIndexRef < CLONE_COUNT
    THEN LET realIndex == s.n + s.currentIndexRef
         IN [s EXCEPT !.currentIndexRef = realIndex,
                      !.currentIndex = realIndex,
                      !.currentTranslate = -realIndex * getSlideWidth(s)]
    ELSE s

\* Carousel.tsx:79-105; the transform is written with style.transition =
\* 'none', so it starts no transition
handleTransitionEnd(s) ==
    LET s1 == [s EXCEPT !.isTransitioning = FALSE]
        s2 == CorrectLow(CorrectHigh(s1))
    IN [s2 EXCEPT !.prevTranslate = s2.currentTranslate,
                  !.styleTransform = s2.currentTranslate,
                  !.transitionRunning = FALSE]

\* Carousel.tsx:127-130; the mouseup listener removes the preventDefault of
\* the render that created it, so a preventDefault of a later render stays
AddDragListeners(s) ==
    [s EXCEPT !.docListeners =
        [mousemove |-> TRUE,
         mouseup |-> TRUE,
         selectstart |-> IF s.preventDefaultCurrent
                         THEN TRUE ELSE s.docListeners.selectstart,
         leaked |-> IF s.preventDefaultCurrent
                    THEN s.docListeners.leaked
                    ELSE IF s.docListeners.leaked < MaxLeaked
                         THEN s.docListeners.leaked + 1
                         ELSE MaxLeaked]]

\* Carousel.tsx:169-171
RemoveDragListeners(s) ==
    [s EXCEPT !.docListeners.mousemove = FALSE,
              !.docListeners.mouseup = FALSE,
              !.docListeners.selectstart = FALSE]

\* Carousel.tsx:120-126, shared by handleMouseDown and handleTouchStart
\* (:185-190); removing the class cancels a running transition
BeginDrag(s, clientX) ==
    LET s1 == [s EXCEPT !.isDraggingRef = TRUE,
                        !.isDragging = TRUE,
                        !.hasMoved = FALSE,
                        !.startX = clientX]
        s2 == stopAutoSlide(s1)
    IN [s2 EXCEPT !.trackClass = FALSE, !.transitionRunning = FALSE]

\* variant: no isTransitioning guard
handleMouseDown_NoGuard(s, clientX) ==
    AddDragListeners(BeginDrag(s, clientX))

\* variant: the guard comes after setHasMoved(false)
handleMouseDown_LateGuard(s, clientX) ==
    IF s.isTransitioning
    THEN [s EXCEPT !.hasMoved = FALSE]
    ELSE AddDragListeners(BeginDrag(s, clientX))

\* Carousel.tsx:113-131
handleMouseDown(s, clientX) ==
    IF s.isTransitioning
    THEN s
    ELSE AddDragListeners(BeginDrag(s, clientX))

\* variant: hasMoved follows the current delta
handleMouseMove_Follow(s, clientX) ==
    IF ~s.isDraggingRef
    THEN s
    ELSE LET deltaX == clientX - s.startX
             s1 == [s EXCEPT !.hasMoved = (Abs(deltaX) > ClickThreshold),
                             !.currentTranslate = s.prevTranslate + deltaX]
         IN SetTransform(s1, s1.currentTranslate)

\* Carousel.tsx:133-144
handleMouseMove(s, clientX) ==
    IF ~s.isDraggingRef
    THEN s
    ELSE LET deltaX == clientX - s.startX
             s1 == [s EXCEPT !.hasMoved =
                        IF Abs(deltaX) > ClickThreshold
                        THEN TRUE ELSE s.hasMoved,
                             !.currentTranslate = s.prevTranslate + deltaX]
         IN SetTransform(s1, s1.currentTranslate)

\* variant: the commit comparison is > instead of >=
handleMouseUp_Strict(s, closureTransitioning) ==
    IF ~s.isDraggingRef
    THEN s
    ELSE LET s1 == [s EXCEPT !.isDraggingRef = FALSE,
                             !.isDragging = FALSE,
                             !.trackClass = TRUE]
             deltaX == s1.currentTranslate - s1.prevTranslate
             slideWidth == getSlideWidth(s1)
             next == IF deltaX > 0 THEN s1.currentIndexRef - 1
                                   ELSE s1.currentIndexRef + 1
             s2 == IF Abs(deltaX) > CommitThreshold
                   THEN [s1 EXCEPT !.currentIndexRef = next,
                                   !.currentIndex = next,
                                   !.currentTranslate = -next * slideWidth,
                                   !.isTransitioning = TRUE]
                   ELSE [s1 EXCEPT !.currentTranslate = s1.prevTranslate]
             s3 == SetTransform(s2, s2.currentTranslate)
             s4 == [s3 EXCEPT !.prevTranslate = s3.currentTranslate]
         IN startAutoSlide(RemoveDragListeners(s4), closureTransitioning)

\* variant: below the threshold the dragged offset is kept
handleMouseUp_NoSnapBack(s, closureTransitioning) ==
    IF ~s.isDraggingRef
    THEN s
    ELSE LET s1 == [s EXCEPT !.isDraggingRef = FALSE,
                             !.isDragging = FALSE,
                             !.trackClass = TRUE]
             deltaX == s1.currentTranslate - s1.prevTranslate
             slideWidth == getSlideWidth(s1)
             next == IF deltaX > 0 THEN s1.currentIndexRef - 1
                                   ELSE s1.currentIndexRef + 1
             s2 == IF Abs(deltaX) >= CommitThreshold
                   THEN [s1 EXCEPT !.currentIndexRef = next,
                                   !.currentIndex = next,
                                   !.currentTranslate = -next * slideWidth,
                                   !.isTransitioning = TRUE]
                   ELSE s1
             s3 == SetTransform(s2, s2.currentTranslate)
             s4 == [s3 EXCEPT !.prevTranslate = s3.currentTranslate]
         IN startAutoSlide(RemoveDragListeners(s4), closureTransitioning)

\* Carousel.tsx:146-174
handleMouseUp(s, closureTransitioning) ==
    IF ~s.isDraggingRef
    THEN s
    ELSE LET s1 == [s EXCEPT !.isDraggingRef = FALSE,
                             !.isDragging = FALSE,
                             !.trackClass = TRUE]
             deltaX == s1.currentTranslate - s1.prevTranslate
             slideWidth == getSlideWidth(s1)
             next == IF deltaX > 0 THEN s1.currentIndexRef - 1
                                   ELSE s1.currentIndexRef + 1
             s2 == IF Abs(deltaX) >= CommitThreshold
                   THEN [s1 EXCEPT !.currentIndexRef = next,
                                   !.currentIndex = next,
                                   !.currentTranslate = -next * slideWidth,
                                   !.isTransitioning = TRUE]
                   ELSE [s1 EXCEPT !.currentTranslate = s1.prevTranslate]
             s3 == SetTransform(s2, s2.currentTranslate)
             s4 == [s3 EXCEPT !.prevTranslate = s3.currentTranslate]
         IN startAutoSlide(RemoveDragListeners(s4), closureTransitioning)

\* variant: no isTransitioning guard
handleTouchStart_NoGuard(s, clientX) ==
    BeginDrag(s, clientX)

\* Carousel.tsx:180-191
handleTouchStart(s, clientX) ==
    IF s.isTransitioning
    THEN s
    ELSE BeginDrag(s, clientX)

\* Carousel.tsx:193-206
handleTouchMove(s, clientX) ==
    IF ~s.isDraggingRef
    THEN s
    ELSE LET deltaX == clientX - s.startX
             s1 == [s EXCEPT !.hasMoved =
                        IF Abs(deltaX) > ClickThreshold
                        THEN TRUE ELSE s.hasMoved,
                             !.currentTranslate = s.prevTranslate + deltaX]
         IN SetTransform(s1, s1.currentTranslate)

\* Carousel.tsx:208-210
handleTouchEnd(s, closureTransitioning) ==
    handleMouseUp(s, closureTransitioning)

\* Carousel.tsx:216-219: TRUE when window.open is called
handleSlideClick(s, landingPage) ==
    ~(s.hasMoved \/ landingPage = "")

\* Carousel.tsx:225-228, re-run when startAutoSlide changed, that is when
\* isTransitioning changed: cleanup of the previous run, then the effect
AutoSlideEffect(old, s) ==
    IF old.isTransitioning # s.isTransitioning
    THEN startAutoSlide(stopAutoSlide(s), s.isTransitioning)
    ELSE s

\* Carousel.tsx:230-238, re-run when currentIndex changed
CurrentIndexEffect(old, s) ==
    IF old.currentIndex # s.currentIndex /\ ~s.isDraggingRef
    THEN LET t == -s.currentIndex * getSlideWidth(s)
             s1 == [s EXCEPT !.currentIndexRef = s.currentIndex,
                             !.currentTranslate = t,
                             !.prevTranslate = t]
         IN SetTransform(s1, t)
    ELSE s

\* The re-render React commits after a handler that changed state, and its
\* effects in source order.  handleMouseUp is re-created only when
\* isTransitioning changed; preventDefault (Carousel.tsx:111) is re-created
\* by every render.
Render(old, s) ==
    LET rendered == \/ old.currentIndex # s.currentIndex
                    \/ old.isDragging # s.isDragging
                    \/ old.hasMoved # s.hasMoved
                    \/ old.isTransitioning # s.isTransitioning
        s1 == CurrentIndexEffect(old, AutoSlideEffect(old, s))
    IN [s1 EXCEPT !.preventDefaultCurrent =
            IF old.isTransitioning # s.isTransitioning THEN TRUE
            ELSE IF rendered THEN FALSE
            ELSE s.preventDefaultCurrent]

\* ----------------------------------------------------------------------
\* Initial state: mounted, first render committed, effects run
\* ----------------------------------------------------------------------

InitWith(lists, widths) ==
    /\ items \in lists
    /\ offsetWidth \in widths
    /\ currentIndex = CLONE_COUNT
    /\ isDragging = FALSE
    /\ hasMoved = FALSE
    /\ isTransitioning = FALSE
    /\ startX = 0
    /\ currentTranslate = -CLONE_COUNT * offsetWidth
    /\ prevTranslate = -CLONE_COUNT * offsetWidth
    /\ autoSlideTimer = NewIntervalId({})
    /\ isDraggingRef = FALSE
    /\ currentIndexRef = CLONE_COUNT
    /\ intervals = setInterval({}, FALSE)
    /\ trackClass = TRUE
    /\ styleTransform = -CLONE_COUNT * offsetWidth
    /\ transitionRunning \in BOOLEAN
    /\ docListeners = [mousemove |-> FALSE, mouseup |-> FALSE,
                       selectstart |-> FALSE, leaked |-> 0]
    /\ preventDefaultCurrent = TRUE
    /\ hovering = FALSE
    /\ pointer = "none"
    /\ downX = 0
    /\ pointerX = 0
    /\ clickPending = FALSE
    /\ movedPast5 = FALSE
    /\ mounted = TRUE
    /\ resizeListener = TRUE
    /\ autoRun = [ticks |-> 0, corrections |-> 0]
    /\ lastEvent = [op |-> "mount", branch |-> "run"]

Init == InitWith(ItemLists, MeasuredWidths)

AutoItemLists ==
    { MakeItems(n, {1}) :
        n \in CLONE_COUNT..(CLONE_COUNT + AutoExtraItems) }

InitAuto == InitWith(AutoItemLists, AutoWidths)

\* ----------------------------------------------------------------------
\* Actions
\* ----------------------------------------------------------------------

\* the clock advances, never past the moment a running timer is due
TimePasses ==
    /\ intervals # {}
    /\ \A t \in intervals : t.remaining > 0
    /\ \E dt \in {TimeStep} \cup {t.remaining : t \in intervals} :
        /\ \A t \in intervals : dt <= t.remaining
        /\ intervals' = {[t EXCEPT !.remaining = t.remaining - dt] :
                            t \in intervals}
    /\ UNCHANGED <<items, currentIndex, isDragging, hasMoved,
                   isTransitioning, startX, currentTranslate, prevTranslate,
                   autoSlideTimer, isDraggingRef, currentIndexRef,
                   trackClass, styleTransform, transitionRunning,
                   docListeners, preventDefaultCurrent, offsetWidth,
                   hovering, pointer, downX, pointerX, clickPending,
                   mounted, resizeListener, autoRun, movedPast5, lastEvent>>

\* a due interval timer calls its nextSlide and is re-armed
TimerFires ==
    \E t \in intervals :
        /\ t.remaining = 0
        /\ LET rearmed == [State EXCEPT !.intervals =
                             (intervals \ {t}) \cup
                             {[t EXCEPT !.remaining = AUTO_SLIDE_INTERVAL]}]
               r == nextSlide(rearmed, t.isTransitioning)
           IN /\ Commit(Render(State, r))
              /\ lastEvent' = [op |-> "nextSlide",
                               branch |-> IF r = rearmed THEN "return"
                                                         ELSE "run"]
              /\ autoRun' = CountTick(autoRun, r # rearmed)
        /\ UNCHANGED <<hovering, pointer, downX, pointerX, clickPending, movedPast5>>

\* onTransitionEnd of the track
TransitionEnd ==
    /\ transitionRunning
    /\ Commit(Render(State, handleTransitionEnd(State)))
    /\ lastEvent' = [op |-> "handleTransitionEnd",
                     branch |-> IF currentIndex' # currentIndex
                                THEN "corrected" ELSE "run"]
    /\ autoRun' = CountCorrection(autoRun, currentIndex' # currentIndex)
    /\ UNCHANGED <<hovering, pointer, downX, pointerX, clickPending, movedPast5>>

\* onMouseDown of the carousel
MouseDown ==
    \E x \in StartXs :
        /\ pointer = "none"
        /\ hovering
        /\ Commit(Render(State, handleMouseDown(State, x)))
        /\ pointer' = "mouse"
        /\ autoRun' = NoRun
        /\ downX' = x
        /\ pointerX' = x
        /\ clickPending' = FALSE
        /\ movedPast5' = IF isTransitioning THEN movedPast5 ELSE FALSE
        /\ lastEvent' = [op |-> "handleMouseDown",
                         branch |-> IF isTransitioning THEN "return"
                                                       ELSE "run"]
        /\ UNCHANGED hovering

\* the document's mousemove listener
MouseMove ==
    \E x \in MoveXs :
        /\ pointer = "mouse"
        /\ docListeners.mousemove
        /\ Commit(Render(State, handleMouseMove(State, x)))
        /\ pointerX' = x
        /\ autoRun' = NoRun
        /\ movedPast5' = (movedPast5 \/
                            (isDraggingRef /\ Abs(x - downX) > 5))
        /\ lastEvent' = [op |-> "handleMouseMove",
                         branch |-> IF isDraggingRef THEN "run"
                                                     ELSE "return"]
        /\ UNCHANGED <<hovering, pointer, downX, clickPending>>

\* the mouse button is released; the document's mouseup listener runs if
\* it is registered, and a click follows a release over the carousel
MouseUp ==
    /\ pointer = "mouse"
    /\ IF docListeners.mouseup
       THEN /\ Commit(Render(State, handleMouseUp(State, isTransitioning)))
            /\ lastEvent' =
                 [op |-> "handleMouseUp",
                  branch |-> IF ~isDraggingRef THEN "return"
                             ELSE IF Abs(currentTranslate - prevTranslate)
                                        >= CommitThreshold
                                  THEN "commit" ELSE "snap"]
       ELSE /\ Commit(State)
            /\ lastEvent' = [op |-> "mouseup", branch |-> "unheard"]
    /\ pointer' = "none"
    /\ clickPending' = hovering
    /\ autoRun' = NoRun
    /\ UNCHANGED <<hovering, downX, pointerX, movedPast5>>

\* onTouchStart of the carousel
TouchStart ==
    \E x \in StartXs :
        /\ pointer = "none"
        /\ Commit(Render(State, handleTouchStart(State, x)))
        /\ pointer' = "touch"
        /\ autoRun' = NoRun
        /\ downX' = x
        /\ pointerX' = x
        /\ clickPending' = FALSE
        /\ movedPast5' = IF isTransitioning THEN movedPast5 ELSE FALSE
        /\ lastEvent' = [op |-> "handleTouchStart",
                         branch |-> IF isTransitioning THEN "return"
                                                       ELSE "run"]
        /\ UNCHANGED hovering

\* onTouchMove of the carousel
TouchMove ==
    \E x \in MoveXs :
        /\ pointer = "touch"
        /\ Commit(Render(State, handleTouchMove(State, x)))
        /\ pointerX' = x
        /\ autoRun' = NoRun
        /\ movedPast5' = (movedPast5 \/
                            (isDraggingRef /\ Abs(x - downX) > 5))
        /\ lastEvent' = [op |-> "handleTouchMove",
                         branch |-> IF isDraggingRef THEN "run"
                                                     ELSE "return"]
        /\ UNCHANGED <<hovering, pointer, downX, clickPending>>

\* onTouchEnd of the carousel
TouchEnd ==
    /\ pointer = "touch"
    /\ Commit(Render(State, handleTouchEnd(State, isTransitioning)))
    /\ lastEvent' =
         [op |-> "handleTouchEnd",
          branch |-> IF ~isDraggingRef THEN "return"
                     ELSE IF Abs(currentTranslate - prevTranslate)
                                >= CommitThreshold
                          THEN "commit" ELSE "snap"]
    /\ pointer' = "none"
    /\ autoRun' = NoRun
    /\ clickPending' = FALSE
    /\ UNCHANGED <<hovering, downX, pointerX, movedPast5>>

\* milliseconds until the timer in autoSlideTimer fires; -1 without one
HandleRemaining ==
    IF \E t \in intervals : t.id = autoSlideTimer
    THEN (CHOOSE t \in intervals : t.id = autoSlideTimer).remaining
    ELSE -1

\* onMouseEnter={stopAutoSlide}
MouseEnter ==
    /\ ~hovering
    /\ hovering' = TRUE
    /\ autoRun' = NoRun
    /\ Commit(Render(State, stopAutoSlide(State)))
    /\ lastEvent' = [op |-> "onMouseEnter", branch |-> "run",
                     remaining |-> HandleRemaining]
    /\ UNCHANGED <<pointer, downX, pointerX, clickPending, movedPast5>>

\* onMouseLeave={startAutoSlide}
MouseLeave ==
    /\ hovering
    /\ hovering' = FALSE
    /\ autoRun' = NoRun
    /\ Commit(Render(State, startAutoSlide(State, isTransitioning)))
    /\ lastEvent' = [op |-> "onMouseLeave", branch |-> "run",
                     remaining |-> IF lastEvent.op = "onMouseEnter"
                                   THEN lastEvent.remaining ELSE -1]
    /\ UNCHANGED <<pointer, downX, pointerX, clickPending, movedPast5>>

\* the click the browser dispatches on a slide after a release:
\* CarouselSlide.handleClick calls handleSlideClick(item.landing_page)
SlideClickOn(i) ==
    /\ clickPending
    /\ clickPending' = FALSE
    /\ autoRun' = NoRun
    /\ Commit(State)
    /\ lastEvent' =
         [op |-> "handleSlideClick",
          landingPage |-> clonedItems(items)[i].landing_page,
          branch |-> IF handleSlideClick(State,
                            clonedItems(items)[i].landing_page)
                     THEN "open" ELSE "return"]
    /\ UNCHANGED <<hovering, pointer, downX, pointerX, movedPast5>>

SlideClick == \E i \in 1..Len(clonedItems(items)) : SlideClickOn(i)

Next ==
    \/ TimePasses
    \/ TimerFires
    \/ TransitionEnd
    \/ MouseDown
    \/ MouseMove
    \/ MouseUp
    \/ TouchStart
    \/ TouchMove
    \/ TouchEnd
    \/ MouseEnter
    \/ MouseLeave
    \/ SlideClick

Spec == Init /\ [][Next]_vars

\* ----------------------------------------------------------------------
\* Viewport resize (auto-play specification)
\* ----------------------------------------------------------------------

\* Carousel.tsx:242-250
updatePosition(s) ==
    LET slideWidth == getSlideWidth(s)
        s1 == [s EXCEPT !.currentTranslate = -s.currentIndexRef * slideWidth,
                        !.prevTranslate = -s.currentIndexRef * slideWidth]
    IN IF s.trackMounted THEN SetTransform(s1, s1.currentTranslate) ELSE s1

\* window's resize listener (Carousel.tsx:253); the slides are laid out
\* again with another width
Resize ==
    \E w \in AutoWidths :
        /\ mounted
        /\ resizeListener
        /\ offsetWidth' = w
        /\ CommitRefsAndState(updatePosition([State EXCEPT !.offsetWidth = w]))
        /\ lastEvent' = [op |-> "updatePosition", branch |-> "run"]
        /\ UNCHANGED <<items, mounted, resizeListener, hovering, pointer,
                       downX, pointerX, clickPending, autoRun, movedPast5>>

NextAuto ==
    \/ TimePasses
    \/ TimerFires
    \/ TransitionEnd
    \/ Resize

\* the carousel driven by its timer alone
SpecAuto == InitAuto /\ [][NextAuto]_vars

\* the same, with what the browser guarantees: the clock advances, a due
\* interval timer calls its callback (Carousel.tsx:65), and a CSS
\* transition that is running ends with a transitionend event
\* (Carousel.tsx:275).  A resize may or may not happen.
SpecAutoFair ==
    InitAuto /\ [][NextAuto]_vars
        /\ WF_vars(TimePasses)
        /\ WF_vars(TimerFires)
        /\ WF_vars(TransitionEnd)

\* ----------------------------------------------------------------------
\* Unmount (lifecycle specification)
\* ----------------------------------------------------------------------

\* the cleanups of the effects, Carousel.tsx:227 and :254; React sets
\* trackRef.current to null and delivers no more events of the elements
Unmount ==
    /\ mounted
    /\ mounted' = FALSE
    /\ resizeListener' = FALSE
    /\ CommitRefsAndState([stopAutoSlide(State)
                            EXCEPT !.transitionRunning = FALSE])
    /\ hovering' = FALSE
    /\ clickPending' = FALSE
    /\ autoRun' = NoRun
    /\ lastEvent' = [op |-> "unmount", branch |-> "run"]
    /\ UNCHANGED <<items, offsetWidth, pointer, downX, pointerX, movedPast5>>

\* Carousel.tsx:133-143 with trackRef.current null: state updates of the
\* unmounted component are dropped and line 143 throws
handleMouseMoveDetached(s, clientX) ==
    IF ~s.isDraggingRef
    THEN s
    ELSE LET deltaX == clientX - s.startX
         IN [s EXCEPT !.currentTranslate = s.prevTranslate + deltaX]

\* Carousel.tsx:146-166 with trackRef.current null: state updates of the
\* unmounted component are dropped and line 166 throws, so lines 167-173
\* (removeEventListener, startAutoSlide) are not reached
handleMouseUpDetached(s) ==
    IF ~s.isDraggingRef
    THEN s
    ELSE LET s1 == [s EXCEPT !.isDraggingRef = FALSE]
             deltaX == s1.currentTranslate - s1.prevTranslate
             slideWidth == getSlideWidth(s1)
             next == IF deltaX > 0 THEN s1.currentIndexRef - 1
                                   ELSE s1.currentIndexRef + 1
         IN IF Abs(deltaX) >= CommitThreshold
            THEN [s1 EXCEPT !.currentIndexRef = next,
                            !.currentTranslate = -next * slideWidth]
            ELSE [s1 EXCEPT !.currentTranslate = s1.prevTranslate]

\* the document's mousemove listener after unmount
MouseMoveDetached ==
    \E x \in MoveXs :
        /\ ~mounted
        /\ pointer = "mouse"
        /\ docListeners.mousemove
        /\ CommitRefsAndState(handleMouseMoveDetached(State, x))
        /\ pointerX' = x
        /\ lastEvent' = [op |-> "handleMouseMove",
                         branch |-> IF isDraggingRef THEN "throw"
                                                     ELSE "return"]
        /\ UNCHANGED <<items, offsetWidth, mounted, resizeListener, hovering,
                       pointer, downX, clickPending, autoRun, movedPast5>>

\* the mouse button is released after unmount
MouseUpDetached ==
    /\ ~mounted
    /\ pointer = "mouse"
    /\ pointer' = "none"
    /\ IF docListeners.mouseup
       THEN /\ CommitRefsAndState(handleMouseUpDetached(State))
            /\ lastEvent' = [op |-> "handleMouseUp",
                             branch |-> IF isDraggingRef THEN "throw"
                                                         ELSE "return"]
       ELSE /\ CommitRefsAndState(State)
            /\ lastEvent' = [op |-> "mouseup", branch |-> "unheard"]
    /\ UNCHANGED <<items, offsetWidth, mounted, resizeListener, hovering,
                   downX, pointerX, clickPending, autoRun, movedPast5>>

NextLifecycle ==
    \/ Next
    \/ Unmount
    \/ MouseMoveDetached
    \/ MouseUpDetached

\* the carousel with its unmount
SpecLifecycle == Init /\ [][NextLifecycle]_vars

\* ----------------------------------------------------------------------
\* Properties
\* ----------------------------------------------------------------------

PaddedLength == Len(items) + 2 * CLONE_COUNT

IsRealIndex(i) == CLONE_COUNT <= i /\ i < CLONE_COUNT + Len(items)

IdleTimer ==
    {[id |-> autoSlideTimer, remaining |-> AUTO_SLIDE_INTERVAL,
      isTransitioning |-> isTransitioning]}

\* C1: after any sequence of timer ticks, pointer and touch events, hover
\* events and animation-finished signals the current position (state and
\* ref) is an index into the padded sequence: 0 <= position < N + 2K.
C1_PositionInPaddedRange ==
    /\ 0 <= currentIndex /\ currentIndex < PaddedLength
    /\ 0 <= currentIndexRef /\ currentIndexRef < PaddedLength
    /\ PaddedLength = Len(clonedItems(items))

\* a committed drag to the right has put the position on the clone K - 1
C1_Witness ==
    /\ lastEvent.op = "handleMouseUp"
    /\ lastEvent.branch = "commit"
    /\ currentIndex = CLONE_COUNT - 1

\* C2: whenever the controller is not Transitioning the position is a real
\* index, K <= position < K + N, and the animation-finished handler leaves
\* the controller not Transitioning (so a clone is replaced in that step).
C2_RealIndexUnlessTransitioning ==
    /\ ~isTransitioning =>
          IsRealIndex(currentIndex) /\ IsRealIndex(currentIndexRef)
    /\ lastEvent.op = "handleTransitionEnd" => ~isTransitioning

\* the handler has replaced the clone K - 1 by the real index N + K - 1
C2_Witness ==
    /\ lastEvent.op = "handleTransitionEnd"
    /\ lastEvent.branch = "corrected"
    /\ currentIndex = Len(items) + CLONE_COUNT - 1

\* C3: no reachable state has a drag session active while a transition is
\* in progress.
C3_DraggingExcludesTransitioning ==
    ~((isDragging \/ isDraggingRef) /\ isTransitioning)

\* a pointer-down arrived during a transition and no drag began
C3_Witness ==
    /\ lastEvent.op \in {"handleMouseDown", "handleTouchStart"}
    /\ lastEvent.branch = "return"
    /\ isTransitioning
    /\ pointer # "none"

\* C4: a timer firing while a drag session is active or a transition is in
\* progress changes neither position, offset nor the two flags; a timer
\* firing in Idle adds exactly 1 to the position and enters Transitioning.
C4_TimerSuppressedUnlessIdle ==
    [][TimerFires =>
        IF isDraggingRef \/ isDragging \/ isTransitioning
        THEN UNCHANGED <<currentIndex, currentIndexRef, currentTranslate,
                         prevTranslate, styleTransform, isDragging,
                         isDraggingRef, isTransitioning>>
        ELSE /\ currentIndex' = currentIndex + 1
             /\ currentIndexRef' = currentIndex + 1
             /\ isTransitioning'
             /\ ~isDragging' /\ ~isDraggingRef']_vars

\* a timer fired during a transition and was suppressed
C4_Witness ==
    /\ lastEvent.op = "nextSlide"
    /\ lastEvent.branch = "return"
    /\ isTransitioning

\* C5: a pointer-down or touch-down received while Transitioning changes
\* nothing of the component (no session, position, offset, moved flag,
\* timer, listeners), and Transitioning ends only by the
\* animation-finished handler.
C5_DownIgnoredWhileTransitioning ==
    [][/\ ((MouseDown \/ TouchStart) /\ isTransitioning)
            => UNCHANGED progVars
       /\ (isTransitioning /\ ~isTransitioning')
            => lastEvent'.op = "handleTransitionEnd"]_vars

\* a mouse-down was ignored: the moved flag of the previous session and the
\* running timer are still there
C5_Witness ==
    /\ lastEvent.op = "handleMouseDown"
    /\ lastEvent.branch = "return"
    /\ hasMoved
    /\ intervals # {}
    /\ ~isDragging

C7_ClickSuppression ==
    /\ [](hasMoved = movedPast5)
    /\ [][\A i \in 1..PaddedLength :
            SlideClickOn(i) =>
              ((lastEvent'.branch = "open") <=>
                 (~movedPast5 /\ clonedItems(items)[i].landing_page # ""))]_vars

\* the pointer went past 5px, came back within 5px, and the click on an
\* item with a landing page did not open it
C7_Witness ==
    /\ lastEvent.op = "handleSlideClick"
    /\ lastEvent.branch = "return"
    /\ movedPast5
    /\ Abs(pointerX - downX) <= 5
    /\ lastEvent.landingPage # ""

\* C8: at most one interval timer runs at any time, and a running timer is
\* the one the handle autoSlideTimer refers to.
C8_AtMostOneTimer ==
    /\ Cardinality(intervals) <= 1
    /\ \A t \in intervals : t.id = autoSlideTimer

\* a drag ended outside the carousel: pointer-leave had started a timer
\* during the drag and the release replaced it
C8_Witness ==
    /\ lastEvent.op = "handleMouseUp"
    /\ ~hovering
    /\ Cardinality(intervals) = 1

\* C9: from pointer-enter to the next pointer-leave no auto-advance timer
\* is active.
C9_PausedWhileHovering ==
    hovering => (intervals = {} /\ autoSlideTimer = 0)

\* C10: hover-enter in Idle cancels the timer, and hover-leave leaves
\* exactly one timer, due a full AUTO_SLIDE_INTERVAL later.
C10_HoverRestartsFullInterval ==
    [][/\ (MouseEnter /\ ~isDragging /\ ~isTransitioning)
            => (intervals' = {} /\ autoSlideTimer' = 0)
       /\ MouseLeave
            => (autoSlideTimer' # 0 /\ intervals' = IdleTimer')]_vars

\* the timer cancelled by the enter had part of its interval left, and the
\* timer created by the leave has the whole interval
C10_Witness ==
    /\ lastEvent.op = "onMouseLeave"
    /\ lastEvent.remaining > 0
    /\ lastEvent.remaining < AUTO_SLIDE_INTERVAL
    /\ ~isDragging /\ ~isTransitioning
    /\ intervals = IdleTimer

\* the padded index i holds this item (padded indices count from 0)
PaddedItem(i) == clonedItems(items)[i + 1]

\* the correction step of handleTransitionEnd (Carousel.tsx:85-97) applied
\* to a component whose position is i
CorrectedAt(i) ==
    CorrectLow(CorrectHigh([State EXCEPT !.currentIndexRef = i,
                                          !.currentIndex = i]))

NoDocListeners ==
    /\ ~docListeners.mousemove
    /\ ~docListeners.mouseup
    /\ ~docListeners.selectstart
    /\ docListeners.leaked = 0

\* C11: from an accepted pointer-down until the matching pointer-up no
\* timer is active, also when the pointer leaves the carousel during the
\* drag.
C11_NoTimerWhileDragging ==
    isDraggingRef => (intervals = {} /\ autoSlideTimer = 0)

\* C13: the padded sequence has length N + 2K; its indices K .. K+N-1 hold
\* the source items in order, an index i < K holds source item N-K+i and an
\* index i >= K+N holds source item i-K-N (source items counted from 0).
C13_PaddedSequence ==
    /\ Len(clonedItems(items)) = Len(items) + 2 * CLONE_COUNT
    /\ \A i \in 0..(PaddedLength - 1) :
         PaddedItem(i) =
           IF i < CLONE_COUNT
           THEN items[(Len(items) - CLONE_COUNT + i) + 1]
           ELSE IF i < CLONE_COUNT + Len(items)
                THEN items[(i - CLONE_COUNT) + 1]
                ELSE items[(i - CLONE_COUNT - Len(items)) + 1]

\* a list longer than the clone count, so that the clones at the two ends
\* are different items
C13_Witness ==
    /\ Len(items) > CLONE_COUNT
    /\ PaddedItem(0) # PaddedItem(PaddedLength - CLONE_COUNT)
    /\ PaddedItem(0).id = Len(items) - CLONE_COUNT + 1

\* C14: for every padded index i the index produced by the correction step
\* is a real index that a second application of the step leaves unchanged.
C14_CorrectionIdempotent ==
    \A i \in 0..(PaddedLength - 1) :
        LET once == CorrectedAt(i)
            twice == CorrectLow(CorrectHigh(once))
        IN /\ twice = once
           /\ IsRealIndex(once.currentIndexRef)
           /\ IsRealIndex(i) => once.currentIndexRef = i

\* the handler has replaced the clone K + N by the real index K
C14_Witness ==
    /\ lastEvent.op = "handleTransitionEnd"
    /\ lastEvent.branch = "corrected"
    /\ currentIndex = CLONE_COUNT
    /\ Len(items) > CLONE_COUNT

C19_ListenersRemovedByMouseUp ==
    pointer = "none" => NoDocListeners

\* C20: for the clone indices a single move can reach, K - 1 and K + N, the
\* padded sequence holds the same items at i + j and at corrected + j for
\* 0 <= j < K.
C20_CorrectionKeepsItems ==
    \A i \in {CLONE_COUNT - 1, CLONE_COUNT + Len(items)} :
        LET corrected == CorrectedAt(i).currentIndexRef
        IN /\ corrected # i
           /\ \A j \in 0..(CLONE_COUNT - 1) :
                /\ i + j < PaddedLength
                /\ corrected + j < PaddedLength
                /\ PaddedItem(i + j) = PaddedItem(corrected + j)

\* the position sits on the clone K - 1, of a list whose items differ,
\* before the correction
C20_Witness ==
    /\ isTransitioning
    /\ currentIndex = CLONE_COUNT - 1
    /\ Len(items) > CLONE_COUNT
    /\ PaddedItem(currentIndex) # PaddedItem(currentIndex + 1)

\* C12: after unmount, in whatever state it happened, there is no active
\* timer and no listener of the carousel on document or window.
C12_UnmountLeavesNothing ==
    ~mounted =>
        /\ intervals = {}
        /\ autoSlideTimer = 0
        /\ ~resizeListener
        /\ NoDocListeners

\* C15: with no user interaction, after t ticks that each had their
\* animation-finished signal the position is K + (t mod N) and t div N
\* corrections were made: N ticks bring the position back to K with
\* exactly one correction, made when the position had reached N + K.
C15_AutoPlayCycle ==
    autoRun.ticks >= 0 =>
        LET n == Len(items)
            t == autoRun.ticks
        IN IF isTransitioning
           THEN /\ t >= 1
                /\ currentIndex = CLONE_COUNT + ((t - 1) % n) + 1
                /\ autoRun.corrections = (t - 1) \div n
           ELSE /\ currentIndex = CLONE_COUNT + (t % n)
                /\ autoRun.corrections = t \div n

\* N = 6, K = 3: after 6 ticks the position is 3 again, one correction made
C15_Witness ==
    /\ Len(items) = 6
    /\ autoRun.ticks = 6
    /\ autoRun.corrections = 1
    /\ ~isTransitioning
    /\ currentIndex = 3

\* C17: the slide width used for the offsets is never zero, so that two
\* different positions have different offsets.
C17_SlideWidthNeverZero ==
    /\ getSlideWidth(State) # 0
    /\ -CLONE_COUNT * getSlideWidth(State)
         # -(CLONE_COUNT + 1) * getSlideWidth(State)

\* C18: the position starts at K; whenever no drag session is active the
\* stored offset is -position * slideWidth and equals the stored
\* drag-start offset; after one tick and no drag the position is K + 1 and
\* the offset -(K + 1) * slideWidth.
C18_OffsetFollowsPosition ==
    /\ lastEvent.op = "mount" => currentIndex = CLONE_COUNT
    /\ ~isDraggingRef =>
          /\ currentTranslate = -currentIndex * offsetWidth
          /\ prevTranslate = currentTranslate
    /\ autoRun.ticks = 1 =>
          /\ currentIndex = CLONE_COUNT + 1
          /\ currentTranslate = -(CLONE_COUNT + 1) * offsetWidth

\* one tick after mount, nothing else
C18_Witness ==
    /\ autoRun.ticks = 1
    /\ currentIndex = CLONE_COUNT + 1
    /\ currentTranslate = -(CLONE_COUNT + 1) * offsetWidth
    /\ prevTranslate = currentTranslate
    /\ ~isDraggingRef

\* C21: with no user interaction, when timer ticks and animation-finished
\* signals are delivered fairly, the carousel never stays in Transitioning
\* for ever and every real index in K .. K + N - 1 is the current position
\* infinitely often.
C21_InfiniteLoopLiveness ==
    /\ []<>(~isTransitioning)
    /\ \A k \in 0..(CLONE_COUNT + AutoExtraItems - 1) :
          []<>(k < Len(items) => currentIndex = CLONE_COUNT + k)

\* the same for the runs in which the first slide always measures a
\* positive width
C21_LoopsWhileWidthPositive ==
    [](offsetWidth > 0) => C21_InfiniteLoopLiveness

=============================================================================
